---------------------------- MODULE Spec2Model ----------------------------
(***************************************************************************)
(* A model of scripts/validate.py, the assignment governance check.       *)
(*                                                                         *)
(* Strings are tuples of one-character strings, so that str.strip,         *)
(* str.splitlines, str.lower, str.startswith, Path.suffix and the glob     *)
(* pattern "*.py" are computed character by character.  A path is the      *)
(* tuple of its parts (pathlib's Path.parts); an absolute path starts      *)
(* with the part "/".                                                      *)
(***************************************************************************)
EXTENDS Integers, Sequences, FiniteSets, TLC

(***************************************************************************)
(* Characters and strings                                                  *)
(***************************************************************************)

\* The characters in use, in code-point order.
Chars ==
    << "\t", "\n", "\r", " ", ".", "/",
       "0", "1", "2", "3", "4", "5", "6", "7", "8", "9",
       "A", "B", "C", "D", "E", "F", "G", "H", "I", "J", "K", "L", "M",
       "N", "O", "P", "Q", "R", "S", "T", "U", "V", "W", "X", "Y", "Z",
       "_",
       "a", "b", "c", "d", "e", "f", "g", "h", "i", "j", "k", "l", "m",
       "n", "o", "p", "q", "r", "s", "t", "u", "v", "w", "x", "y", "z" >>

Ord(c) == CHOOSE i \in DOMAIN Chars : Chars[i] = c

\* str.lower on one character: "A".."Z" are 27 places before "a".."z" in Chars.
LowerChar(c) ==
    IF Ord(c) >= Ord("A") /\ Ord(c) <= Ord("Z") THEN Chars[Ord(c) + 27] ELSE c

\* str.lower
Lower(s) == [i \in DOMAIN s |-> LowerChar(s[i])]

\* str.startswith
StartsWith(s, prefix) ==
    /\ Len(s) >= Len(prefix)
    /\ SubSeq(s, 1, Len(prefix)) = prefix

\* fnmatch of the pattern "*" + ext, as glob applies it on a POSIX filesystem
EndsWith(s, ext) ==
    /\ Len(s) >= Len(ext)
    /\ SubSeq(s, Len(s) - Len(ext) + 1, Len(s)) = ext

\* the white space str.strip removes
IsSpace(c) == c \in {" ", "\t", "\n", "\r"}

\* the line boundaries str.splitlines splits at
IsLineBreak(c) == c \in {"\n", "\r"}

RECURSIVE LStrip(_)
LStrip(s) ==
    IF s = <<>> THEN <<>>
    ELSE IF IsSpace(Head(s)) THEN LStrip(Tail(s)) ELSE s

RECURSIVE RStrip(_)
RStrip(s) ==
    IF s = <<>> THEN <<>>
    ELSE IF IsSpace(s[Len(s)]) THEN RStrip(SubSeq(s, 1, Len(s) - 1)) ELSE s

\* str.strip
Strip(s) == RStrip(LStrip(s))

\* s cut at every character of seps; the pieces between two cuts, empty ones included
RECURSIVE SplitAt(_, _, _)
SplitAt(s, seps, cur) ==
    IF s = <<>> THEN <<cur>>
    ELSE IF Head(s) \in seps
         THEN <<cur>> \o SplitAt(Tail(s), seps, <<>>)
         ELSE SplitAt(Tail(s), seps, Append(cur, Head(s)))

\* str.splitlines (no empty last line after a final line break)
SplitLines(s) ==
    IF s = <<>> THEN <<>>
    ELSE LET pieces == SplitAt(s, {"\n", "\r"}, <<>>)
         IN  IF IsLineBreak(s[Len(s)])
             THEN SubSeq(pieces, 1, Len(pieces) - 1)
             ELSE pieces

RECURSIVE Flatten(_)
Flatten(seqs) ==
    IF seqs = <<>> THEN <<>> ELSE Head(seqs) \o Flatten(Tail(seqs))

Reverse(seq) == [i \in DOMAIN seq |-> seq[Len(seq) + 1 - i]]

Range(seq) == {seq[i] : i \in DOMAIN seq}

\* the comparison of two str values
RECURSIVE StrLess(_, _)
StrLess(a, b) ==
    IF b = <<>> THEN FALSE
    ELSE IF a = <<>> THEN TRUE
    ELSE IF Head(a) = Head(b) THEN StrLess(Tail(a), Tail(b))
    ELSE Ord(Head(a)) < Ord(Head(b))

(***************************************************************************)
(* Paths                                                                   *)
(***************************************************************************)

\* Path.__lt__: the parts compared as tuples of str
RECURSIVE PathLess(_, _)
PathLess(p, q) ==
    IF q = <<>> THEN FALSE
    ELSE IF p = <<>> THEN TRUE
    ELSE IF Head(p) = Head(q) THEN PathLess(Tail(p), Tail(q))
    ELSE StrLess(Head(p), Head(q))

\* sorted() of a set of paths
RECURSIVE SortPaths(_)
SortPaths(S) ==
    IF S = {} THEN <<>>
    ELSE LET m == CHOOSE x \in S : \A y \in S : x = y \/ PathLess(x, y)
         IN  <<m>> \o SortPaths(S \ {m})

\* Path.name
Name(p) == p[Len(p)]

\* the index of the last "." of a name, 0 when it has none (str.rfind, from 1)
LastDot(name) ==
    LET dots == {i \in DOMAIN name : name[i] = "."}
    IN  IF dots = {} THEN 0 ELSE CHOOSE i \in dots : \A j \in dots : j <= i

\* Path.suffix: from the last ".", unless it leads or ends the name
PathSuffix(p) ==
    LET name == Name(p)
        i    == LastDot(name)
    IN  IF 1 < i /\ i < Len(name) THEN SubSeq(name, i, Len(name)) ELSE <<>>

IsPrefixOf(p, q) == Len(p) <= Len(q) /\ SubSeq(q, 1, Len(p)) = p

ValueError == <<"ValueError">>

\* Path.relative_to: the parts after root's, ValueError when p is not under root
RelativeTo(p, base) ==
    IF IsPrefixOf(base, p) THEN SubSeq(p, Len(base) + 1, Len(p)) ELSE ValueError

\* the parts of a str given to Path(): split at "/", no empty part and no "."
StrParts(s) ==
    SelectSeq(SplitAt(s, {"/"}, <<>>), LAMBDA part : part # <<>> /\ part # <<".">>)

\* base / s: an absolute s replaces base
JoinPath(base, s) ==
    IF s # <<>> /\ Head(s) = "/" THEN <<<<"/">>>> \o StrParts(s)
    ELSE base \o StrParts(s)

\* str(path) of a relative path: its parts joined by "/"
RECURSIVE PathStr(_)
PathStr(p) ==
    IF p = <<>> THEN <<>>
    ELSE IF Len(p) = 1 THEN Head(p)
    ELSE Head(p) \o <<"/">> \o PathStr(Tail(p))

(***************************************************************************)
(* Constraints (the frozen dataclass)                                      *)
(***************************************************************************)

max_src_files == 5

max_line_count == 500

max_asset_size_bytes == 5 * 1024 * 1024

question_prefix == <<"q">>

target_ext == <<".", "p", "y">>

ignored_parts ==
    { <<".", "v", "e", "n", "v">>,
      <<"v", "e", "n", "v">>,
      <<".", "g", "i", "t">>,
      <<"_", "_", "p", "y", "c", "a", "c", "h", "e", "_", "_">>,
      <<".", "p", "y", "t", "e", "s", "t", "_", "c", "a", "c", "h", "e">>,
      <<".", "d", "e", "v", "c", "o", "n", "t", "a", "i", "n", "e", "r">>,
      <<"i", "n", "f", "r", "a">> }

asset_exts ==
    { <<".", "j", "p", "g">>,
      <<".", "j", "p", "e", "g">>,
      <<".", "p", "n", "g">>,
      <<".", "m", "p", "4">>,
      <<".", "m", "o", "v">>,
      <<".", "a", "v", "i">> }

whitelisted_files ==
    { <<".", "g", "i", "t", "i", "g", "n", "o", "r", "e">>,
      <<"R", "E", "A", "D", "M", "E", ".", "m", "d">>,
      <<"p", "y", "p", "r", "o", "j", "e", "c", "t", ".", "t", "o", "m", "l">>,
      <<"u", "v", ".", "l", "o", "c", "k">>,
      <<"M", "a", "k", "e", "f", "i", "l", "e">>,
      <<"c", "o", "n", "f", "i", "g", ".", "y", "a", "m", "l">> }

(***************************************************************************)
(* The names the submissions below are made of                             *)
(***************************************************************************)

s_slash == <<"/">>
s_srv == <<"s", "r", "v">>
s_hw == <<"h", "w">>
s_infra == <<"i", "n", "f", "r", "a">>
s_dot_cache == <<".", "c", "a", "c", "h", "e">>
s_q1 == <<"q", "1">>
s_q2 == <<"q", "2">>
s_src == <<"s", "r", "c">>
s_assets == <<"a", "s", "s", "e", "t", "s">>
s_dot_github == <<".", "g", "i", "t", "h", "u", "b">>
s_README_md == <<"R", "E", "A", "D", "M", "E", ".", "m", "d">>
s_notes_txt == <<"n", "o", "t", "e", "s", ".", "t", "x", "t">>
s_quiz_txt == <<"q", "u", "i", "z", ".", "t", "x", "t">>
s_old_txt == <<"o", "l", "d", ".", "t", "x", "t">>
s_big_txt == <<"b", "i", "g", ".", "t", "x", "t">>
s_ci_yml == <<"c", "i", ".", "y", "m", "l">>
s_tool_py == <<"t", "o", "o", "l", ".", "p", "y">>
s_pic_PNG == <<"p", "i", "c", ".", "P", "N", "G">>
s_ok_png == <<"o", "k", ".", "p", "n", "g">>
s_a_py == <<"a", ".", "p", "y">>
s_b_py == <<"b", ".", "p", "y">>
s_c_py == <<"c", ".", "p", "y">>
s_d_py == <<"d", ".", "p", "y">>
s_e_py == <<"e", ".", "p", "y">>
s_f_py == <<"f", ".", "p", "y">>
s_pkg_py == <<"p", "k", "g", ".", "p", "y">>
s_true == <<"t", "r", "u", "e">>
s_True == <<"T", "r", "u", "e">>
s_false == <<"f", "a", "l", "s", "e">>

(***************************************************************************)
(* Submissions: what is on disk under root, and what differs between       *)
(* origin/main and HEAD                                                    *)
(***************************************************************************)

\* a regular file: its path relative to root, st_size, and number of lines
File(path, size, lines) ==
    [path |-> path, kind |-> "file", size |-> size, lines |-> lines]

\* a directory that is named explicitly
Dir(path) == [path |-> path, kind |-> "dir", size |-> 4096, lines |-> 0]

p_notes == <<s_notes_txt>>
p_readme == <<s_README_md>>
p_ci == <<s_dot_github, s_ci_yml>>
p_tool == <<s_infra, s_tool_py>>
p_pic == <<s_assets, s_pic_PNG>>
p_ok == <<s_assets, s_ok_png>>
p_big == <<s_big_txt>>
p_old == <<s_old_txt>>
p_q1a == <<s_q1, s_src, s_a_py>>
p_q1b == <<s_q1, s_src, s_b_py>>
p_q1pkg == <<s_q1, s_src, s_pkg_py>>
p_q2b == <<s_q2, s_src, s_b_py>>

\* a bit of everything: hidden and ignored directories, assets at and over the
\* limit, a large file that is no asset, a question directory without src
TreeMixed ==
    [ entries |->
        { File(p_readme, 120, 10),
          File(p_notes, 40, 4),
          File(<<s_quiz_txt>>, 40, 4),
          File(p_ci, 300, 20),
          File(p_tool, 900, 60),
          File(p_pic, max_asset_size_bytes + 1, 0),
          File(p_ok, max_asset_size_bytes, 0),
          File(p_big, max_asset_size_bytes + 1, 9),
          File(p_q1a, 30, 3),
          File(p_q1b, 9000, 600),
          File(<<s_q2, s_notes_txt>>, 40, 4) },
      diffs |->
        { <<>>,
          <<p_ci, p_pic, p_notes, p_old, p_q1a, p_readme>>,
          <<p_ci>>,
          <<p_big, p_tool, p_ok>> } ]

\* six scripts in q1/src, five in q2/src; 500 and 501 lines
TreeCounts ==
    [ entries |->
        { File(<<s_q1, s_src, s_a_py>>, 7000, 500),
          File(<<s_q1, s_src, s_b_py>>, 7000, 501),
          File(<<s_q1, s_src, s_c_py>>, 30, 3),
          File(<<s_q1, s_src, s_d_py>>, 30, 3),
          File(<<s_q1, s_src, s_e_py>>, 30, 3),
          File(<<s_q1, s_src, s_f_py>>, 30, 3),
          File(<<s_q2, s_src, s_a_py>>, 30, 3),
          File(<<s_q2, s_src, s_b_py>>, 30, 3),
          File(<<s_q2, s_src, s_c_py>>, 30, 3),
          File(<<s_q2, s_src, s_d_py>>, 30, 3),
          File(<<s_q2, s_src, s_e_py>>, 30, 3) },
      diffs |-> { <<>>, <<p_q1a>> } ]

\* a directory named pkg.py beside the scripts of q1
TreeBadEntry ==
    [ entries |->
        { File(p_q1a, 7000, 501),
          Dir(p_q1pkg),
          File(p_q2b, 9000, 600) },
      diffs |-> { <<>>, <<p_q1a>> } ]

\* q1/src/a.py of 3 lines and q1/src/b.py of 600
TreeScenario ==
    [ entries |-> { File(p_q1a, 30, 3), File(p_q1b, 9000, 600) },
      diffs |-> { <<>>, <<p_q1a>> } ]

\* nothing to report
TreeClean ==
    [ entries |->
        { File(p_readme, 120, 10),
          File(p_q1a, 30, 3),
          File(p_ok, max_asset_size_bytes, 0) },
      diffs |-> { <<>>, <<p_q1a, p_readme>> } ]

Trees == {TreeMixed, TreeCounts, TreeBadEntry, TreeScenario, TreeClean}

\* Path(path).resolve(): where the submission lies
Roots ==
    { <<s_slash, s_srv, s_hw>>,
      <<s_slash, s_srv, s_infra, s_hw>>,
      <<s_slash, s_srv, s_dot_cache, s_hw>> }

\* os.environ without IS_INSTRUCTOR
Unset == <<"unset">>

\* IS_INSTRUCTOR is not set, or set to "True"
EnvValues == {Unset, s_True}

\* the order in which os.scandir yields the entries of a directory
ScanOrders == {"asc", "desc"}

\* how many files another process removes while the check runs
MaxVanish == 1

(***************************************************************************)
(* State                                                                   *)
(***************************************************************************)

VARIABLES
    root,            \* Path(path).resolve()
    disk,            \* the entries under root, with absolute paths
    diff_names,      \* the paths that differ between origin/main and HEAD
    scan_order,      \* os.scandir's order
    gone,            \* the files removed since the check started
    local,           \* --local
    IS_INSTRUCTOR,   \* the environment variable, or Unset
    git,             \* how the git subprocess ended, once it has run
    pc,              \* where main is
    files,           \* get_files_to_check's result
    idx,             \* the position of the for loop over files
    violations,
    total_py_files,
    total_lines,
    q_dirs,
    qi,              \* the position of the for loop over q_dirs
    py_files,
    fi,              \* the position of the for loop over py_files
    rendered,        \* what the console shows at the end
    exit_status      \* the process's exit status, -1 while it runs

vars ==
    << root, disk, diff_names, scan_order, gone, local, IS_INSTRUCTOR, git, pc,
       files, idx, violations, total_py_files, total_lines, q_dirs, qi,
       py_files, fi, rendered, exit_status >>

(***************************************************************************)
(* The filesystem                                                          *)
(***************************************************************************)

\* every path on disk: the entries and the directories above them
Nodes ==
    UNION { {SubSeq(e.path, 1, k) : k \in 1..Len(e.path)} : e \in disk }

IsEntry(p) == \E e \in disk : e.path = p

Entry(p) == CHOOSE e \in disk : e.path = p

\* Path.exists
Exists(p) == p \in Nodes /\ p \notin gone

\* Path.is_file
IsFile(p) == Exists(p) /\ IsEntry(p) /\ Entry(p).kind = "file"

\* Path.is_dir
IsDir(p) == Exists(p) /\ ~(IsEntry(p) /\ Entry(p).kind = "file")

\* Path.stat().st_size
StSize(p) == IF IsEntry(p) THEN Entry(p).size ELSE 4096

\* sum(1 for _ in file)
LineCount(p) == Entry(p).lines

\* os.scandir: the entries of a directory, in the filesystem's order
ScanDir(d) ==
    LET kids   == {p \in Nodes : Len(p) = Len(d) + 1 /\ IsPrefixOf(d, p) /\ p \notin gone}
        sorted == SortPaths(kids)
    IN  IF scan_order = "asc" THEN sorted ELSE Reverse(sorted)

\* Path.iterdir
Iterdir(d) == ScanDir(d)

\* Path.rglob("*"): the entries of d, then those of each directory below it,
\* directories taken in pre-order
RECURSIVE RGlob(_)
RGlob(d) ==
    LET kids == ScanDir(d)
    IN  kids \o Flatten([i \in DOMAIN kids |->
                            IF IsDir(kids[i]) THEN RGlob(kids[i]) ELSE <<>>])

\* Path.glob("*" + ext): the entries directly inside d whose name ends with ext
Glob(d, ext) ==
    IF IsDir(d)
    THEN SelectSeq(ScanDir(d), LAMBDA p : EndsWith(Name(p), ext))
    ELSE <<>>

(***************************************************************************)
(* PathFilter and ChangeSetResolver                                        *)
(***************************************************************************)

should_exclude(path, ignored) ==
    \E i \in DOMAIN path : path[i] \in ignored \/ StartsWith(path[i], <<".">>)

\* [p for p in root.rglob("*") if p.is_file() and not should_exclude(p, ignored_parts)]
FullScan(r, ignored) ==
    SelectSeq(RGlob(r), LAMBDA p : IsFile(p) /\ ~should_exclude(p, ignored))

\* [root / line.strip() for line in result.splitlines() if line.strip()]
AllChanged(r, result) ==
    LET lines == SelectSeq(SplitLines(result), LAMBDA line : Strip(line) # <<>>)
    IN  [i \in DOMAIN lines |-> JoinPath(r, Strip(lines[i]))]

\* the diff's paths, filtered
ChangedFiles(r, result, ignored) ==
    SelectSeq(AllChanged(r, result), LAMBDA p : ~should_exclude(p, ignored))

\* the subprocess did not run
NotRun == [ran |-> FALSE, ok |-> FALSE, out |-> <<>>]

\* git diff --name-only prints one path per line
GitDiffText(paths) ==
    Flatten([i \in DOMAIN paths |-> PathStr(paths[i]) \o <<"\n">>])

\* check_output raises (git absent, no origin/main, non-zero exit), or returns stdout
GitOutcomes ==
    { [ran |-> TRUE, ok |-> FALSE, out |-> <<>>],
      [ran |-> TRUE, ok |-> TRUE, out |-> GitDiffText(diff_names)] }

\* whether the try block returns the changed files
UsesDiff(run) == run.ok /\ Strip(run.out) # <<>>

\* get_files_to_check without the test "if result:"
get_files_to_check_NoFallbackOnEmpty(r, is_local, ignored, run) ==
    IF is_local THEN FullScan(r, ignored)
    ELSE IF run.ok THEN ChangedFiles(r, Strip(run.out), ignored)
    ELSE FullScan(r, ignored)

get_files_to_check(r, is_local, ignored, run) ==
    IF is_local THEN FullScan(r, ignored)
    ELSE IF UsesDiff(run) THEN ChangedFiles(r, Strip(run.out), ignored)
    ELSE FullScan(r, ignored)

(***************************************************************************)
(* ConstraintEngine                                                        *)
(***************************************************************************)

\* os.getenv("IS_INSTRUCTOR", "false").lower() == "true"
is_instructor ==
    Lower(IF IS_INSTRUCTOR = Unset THEN s_false ELSE IS_INSTRUCTOR) = s_true

Violation(rule, subject) == [rule |-> rule, subject |-> subject]

\* path_obj.suffix.lower() in constraints.asset_exts
IsAsset(p) == Lower(PathSuffix(p)) \in asset_exts

\* the asset rule with >= for >
AssetTooLarge_AtLimit(size) == size >= max_asset_size_bytes

\* path_obj.stat().st_size > constraints.max_asset_size_bytes
AssetTooLarge(size) == size > max_asset_size_bytes

\* the asset rule raises when stat() finds no file, or when the path is not under root
AssetRaises(p) ==
    /\ IsAsset(p)
    /\ \/ ~Exists(p)
       \/ AssetTooLarge(StSize(p)) /\ RelativeTo(p, root) = ValueError

AssetRule(p) ==
    IF IsAsset(p) /\ AssetTooLarge(StSize(p))
    THEN <<Violation("asset", RelativeTo(p, root))>>
    ELSE <<>>

\* the modification-scope rule without the instructor bypass
ScopeEnforced_IgnoresInstructor == ~local

\* if not local and not is_instructor
ScopeEnforced == ~local /\ ~is_instructor

\* the modification-scope rule without the whitelist
IsPermitted_NoWhitelist(rel) ==
    \/ s_src \in Range(rel)
    \/ s_assets \in Range(rel)

\* is_in_src or is_in_assets or is_whitelisted
IsPermitted(rel) ==
    \/ s_src \in Range(rel)
    \/ s_assets \in Range(rel)
    \/ Name(rel) \in whitelisted_files

ScopeRule(p) ==
    LET rel == RelativeTo(p, root)
    IN  IF ScopeEnforced /\ rel # ValueError /\ ~IsPermitted(rel)
        THEN <<Violation("forbidden", rel)>>
        ELSE <<>>

\* len(py_files) > constraints.max_src_files
TooManyScripts(n) == n > max_src_files

\* the line-count rule with >= for >
TooManyLines_AtLimit(count) == count >= max_line_count

\* count > constraints.max_line_count
TooManyLines(count) == count > max_line_count

\* d.is_dir() and d.name.startswith(constraints.question_prefix)
IsQuestionDir(d) == IsDir(d) /\ StartsWith(Name(d), question_prefix)

\* the directories rules 3 and 4 look at
QuestionDirs(r) == SortPaths({d \in Range(Iterdir(r)) : IsQuestionDir(d)})

\* rules 3 and 4 over the candidate files only
SourceFiles_OnlyCandidates(q_dir) ==
    SelectSeq(Glob(q_dir \o <<s_src>>, target_ext), LAMBDA p : p \in Range(files))

\* the files rules 3 and 4 count in one question directory
SourceFiles(q_dir) == Glob(q_dir \o <<s_src>>, target_ext)

(***************************************************************************)
(* main                                                                    *)
(***************************************************************************)

Init ==
    /\ local \in BOOLEAN
    /\ \E tree \in Trees, r \in Roots :
          /\ root = r
          /\ disk = {[e EXCEPT !.path = r \o e.path] : e \in tree.entries}
          \* in Local mode the subprocess does not run and the diff is never read
          /\ diff_names \in (IF local THEN {<<>>} ELSE tree.diffs)
    /\ scan_order \in ScanOrders
    /\ IS_INSTRUCTOR \in EnvValues
    /\ gone = {}
    /\ git = NotRun
    /\ pc = "resolve"
    /\ files = <<>>
    /\ idx = 1
    /\ violations = <<>>
    /\ total_py_files = 0
    /\ total_lines = 0
    /\ q_dirs = <<>>
    /\ qi = 1
    /\ py_files = <<>>
    /\ fi = 1
    /\ rendered = [kind |-> "panel", rows |-> <<>>]
    /\ exit_status = -1

\* an uncaught exception: the traceback is printed and the interpreter exits with 1
Raise ==
    /\ pc' = "crashed"
    /\ rendered' = [kind |-> "traceback", rows |-> <<>>]
    /\ exit_status' = 1

\* files = get_files_to_check(root, local, constraints.ignored_parts)
Resolve ==
    /\ pc = "resolve"
    /\ \E run \in (IF local THEN {NotRun} ELSE GitOutcomes) :
          /\ git' = run
          /\ files' = get_files_to_check(root, local, ignored_parts, run)
    /\ idx' = 1
    /\ pc' = "exists"
    /\ UNCHANGED << root, disk, diff_names, scan_order, gone, local, IS_INSTRUCTOR,
                    violations, total_py_files, total_lines, q_dirs, qi,
                    py_files, fi, rendered, exit_status >>

\* for path_obj in files: if not path_obj.exists(): continue
ForEachFile ==
    /\ pc = "exists"
    /\ IF idx > Len(files)
       THEN pc' = "qdirs" /\ idx' = idx
       ELSE IF ~Exists(files[idx])
            THEN pc' = "exists" /\ idx' = idx + 1
            ELSE pc' = "check" /\ idx' = idx
    /\ UNCHANGED << root, disk, diff_names, scan_order, gone, local, IS_INSTRUCTOR,
                    git, files, violations, total_py_files, total_lines, q_dirs,
                    qi, py_files, fi, rendered, exit_status >>

\* the asset rule and the modification-scope rule on files[idx]
CheckFile ==
    /\ pc = "check"
    /\ LET path_obj == files[idx]
       IN  IF AssetRaises(path_obj)
           THEN /\ Raise
                /\ UNCHANGED << idx, violations >>
           ELSE /\ violations' = violations \o AssetRule(path_obj) \o ScopeRule(path_obj)
                /\ idx' = idx + 1
                /\ pc' = "exists"
                /\ UNCHANGED << rendered, exit_status >>
    /\ UNCHANGED << root, disk, diff_names, scan_order, gone, local, IS_INSTRUCTOR,
                    git, files, total_py_files, total_lines, q_dirs, qi,
                    py_files, fi >>

\* q_dirs = sorted([d for d in root.iterdir() if ...])
ListQuestionDirs ==
    /\ pc = "qdirs"
    /\ q_dirs' = QuestionDirs(root)
    /\ qi' = 1
    /\ pc' = "qdir"
    /\ UNCHANGED << root, disk, diff_names, scan_order, gone, local, IS_INSTRUCTOR,
                    git, files, idx, violations, total_py_files, total_lines,
                    py_files, fi, rendered, exit_status >>

\* for q_dir in q_dirs: the source-file-count rule
CheckQuestionDir ==
    /\ pc = "qdir"
    /\ IF qi > Len(q_dirs)
       THEN /\ pc' = "report"
            /\ UNCHANGED << qi, py_files, fi, total_py_files, violations >>
       ELSE IF ~Exists(q_dirs[qi] \o <<s_src>>)
            THEN /\ qi' = qi + 1
                 /\ pc' = "qdir"
                 /\ UNCHANGED << py_files, fi, total_py_files, violations >>
            ELSE LET found == SourceFiles(q_dirs[qi])
                 IN  /\ py_files' = found
                     /\ total_py_files' = total_py_files + Len(found)
                     /\ violations' =
                           IF TooManyScripts(Len(found))
                           THEN Append(violations, Violation("too_many", <<Name(q_dirs[qi])>>))
                           ELSE violations
                     /\ fi' = 1
                     /\ pc' = "lines"
                     /\ qi' = qi
    /\ UNCHANGED << root, disk, diff_names, scan_order, gone, local, IS_INSTRUCTOR,
                    git, files, idx, total_lines, q_dirs, rendered, exit_status >>

\* for f in py_files: open it and count its lines
CountLines ==
    /\ pc = "lines"
    /\ IF fi > Len(py_files)
       THEN /\ qi' = qi + 1
            /\ pc' = "qdir"
            /\ UNCHANGED << fi, total_lines, violations, rendered, exit_status >>
       ELSE LET f == py_files[fi]
            IN  IF ~IsFile(f)
                THEN /\ Raise
                     /\ UNCHANGED << fi, qi, total_lines, violations >>
                ELSE /\ total_lines' = total_lines + LineCount(f)
                     /\ violations' =
                           IF TooManyLines(LineCount(f))
                           THEN Append(violations, Violation("lines", RelativeTo(f, root)))
                           ELSE violations
                     /\ fi' = fi + 1
                     /\ pc' = "lines"
                     /\ UNCHANGED << qi, rendered, exit_status >>
    /\ UNCHANGED << root, disk, diff_names, scan_order, gone, local, IS_INSTRUCTOR,
                    git, files, idx, total_py_files, q_dirs, py_files >>

\* the table and sys.exit(1), or the success message
Report ==
    /\ pc = "report"
    /\ IF violations # <<>>
       THEN /\ rendered' = [kind |-> "table", rows |-> violations]
            /\ exit_status' = 1
       ELSE /\ rendered' = [kind |-> "success", rows |-> <<>>]
            /\ exit_status' = 0
    /\ pc' = "done"
    /\ UNCHANGED << root, disk, diff_names, scan_order, gone, local, IS_INSTRUCTOR,
                    git, files, idx, violations, total_py_files, total_lines,
                    q_dirs, qi, py_files, fi >>

\* another process removes a file while the check runs
Vanish ==
    /\ pc \in {"exists", "check", "qdirs", "qdir", "lines"}
    /\ Cardinality(gone) < MaxVanish
    /\ \E e \in disk :
          /\ e.kind = "file"
          /\ e.path \notin gone
          /\ gone' = gone \cup {e.path}
    /\ UNCHANGED << root, disk, diff_names, scan_order, local, IS_INSTRUCTOR, git,
                    pc, files, idx, violations, total_py_files, total_lines,
                    q_dirs, qi, py_files, fi, rendered, exit_status >>

Next ==
    \/ Resolve
    \/ ForEachFile
    \/ CheckFile
    \/ ListQuestionDirs
    \/ CheckQuestionDir
    \/ CountLines
    \/ Report
    \/ Vanish

Spec == Init /\ [][Next]_vars


(***************************************************************************)
(* Properties                                                              *)
(***************************************************************************)

Count(seq, v) == Cardinality({i \in DOMAIN seq : seq[i] = v})

Pos(seq, x) == CHOOSE i \in DOMAIN seq : seq[i] = x

Rel(p) == RelativeTo(p, root)

\* the for loop over files is past position i
Evaluated(i) == i < idx

\* Student (CI/CD) mode
StudentCI == ~local /\ ~is_instructor

\* the subprocess succeeded and named at least one path
DiffReported == git.ran /\ git.ok /\ diff_names # <<>>

\* no "src" part, no "assets" part, and a name that is not whitelisted
OutsideScope(rel) ==
    /\ \A i \in DOMAIN rel : rel[i] # s_src /\ rel[i] # s_assets
    /\ rel[Len(rel)] \notin whitelisted_files

Forbidden(rel) == Count(violations, Violation("forbidden", rel))

\* C1, as claimed: in Student-CI mode, when the run has ended, every path the
\* diff reports that is outside src/, outside assets/ and not whitelisted has
\* exactly one "Forbidden modification" violation, hidden and ignored
\* directories included.
C1_EveryChangedFileOutsideScope ==
    (StudentCI /\ DiffReported /\ pc = "done") =>
        \A k \in DOMAIN diff_names :
            OutsideScope(diff_names[k]) => Forbidden(diff_names[k]) = 1

\* C1, amended: in Student-CI mode a path the diff reports has exactly one
\* "Forbidden modification" violation once the loop is past it if it is outside
\* src/ and assets/, not whitelisted, not excluded by should_exclude applied to
\* root / path, and on disk when the loop reaches it.  It has none if it is in
\* scope, excluded, or not on disk, and none before the loop reaches it.
C1_ChangedCandidateOutsideScope ==
    (StudentCI /\ DiffReported /\ pc # "resolve") =>
        \A k \in DOMAIN diff_names :
            LET rel == diff_names[k]
                p   == root \o rel
            IN  IF ~OutsideScope(rel) \/ should_exclude(p, ignored_parts) \/ p \notin Nodes
                THEN Forbidden(rel) = 0
                ELSE /\ p \in Range(files)
                     /\ Forbidden(rel) <= 1
                     /\ ~Evaluated(Pos(files, p)) => Forbidden(rel) = 0
                     /\ (Evaluated(Pos(files, p)) /\ p \notin gone) => Forbidden(rel) = 1

C1_Witness ==
    /\ StudentCI /\ DiffReported /\ pc = "done"
    /\ p_ci \in Range(diff_names)
    /\ Forbidden(p_notes) = 1
    /\ Forbidden(p_ci) = 0

\* C2, as claimed: the run never ends with an uncaught exception, and when it
\* ends the console shows the violation table or the success message.
C2_NeverRaises ==
    /\ pc # "crashed"
    /\ exit_status # -1 => rendered.kind \in {"table", "success"}

\* C3, as claimed: the process exits with a nonzero status if and only if a
\* violation was collected; with none it shows the success message and exits
\* with 0, with some it shows one row per violation and exits with 1.
C3_ExitStatus ==
    exit_status # -1 =>
        /\ (exit_status # 0) <=> (violations # <<>>)
        /\ violations = <<>> => exit_status = 0 /\ rendered.kind = "success"
        /\ violations # <<>> =>
              exit_status = 1 /\ rendered = [kind |-> "table", rows |-> violations]

\* C4: in Local mode and in Instructor-Bypass mode the violation list never
\* holds a "Forbidden modification" violation.
C4_NoForbiddenOutsideStudentCI ==
    (local \/ is_instructor) =>
        \A i \in DOMAIN violations : violations[i].rule # "forbidden"

C4_Witness ==
    /\ is_instructor /\ ~local /\ DiffReported /\ pc = "done"
    /\ root \o p_notes \in Range(files)
    /\ root \o p_notes \notin gone
    /\ violations # <<>>

\* the paths the diff names, joined to root, without the excluded ones
ListedCandidates ==
    SelectSeq([k \in DOMAIN diff_names |-> root \o diff_names[k]],
              LAMBDA p : ~should_exclude(p, ignored_parts))

\* C5: in a run that is not local, get_files_to_check returns what it returns
\* in Local mode when the subprocess raises or prints nothing, and the listed
\* paths joined to root and filtered when it prints some; the subprocess has
\* run.  (files never changes after it is set; gone = {} is the disk it was
\* computed on.)
C5_FallbackToFullScan ==
    (~local /\ pc # "resolve" /\ gone = {}) =>
        /\ git.ran
        /\ IF git.ok /\ diff_names # <<>>
           THEN files = ListedCandidates
           ELSE files = get_files_to_check(root, TRUE, ignored_parts, NotRun)

C5_Witness ==
    /\ ~local /\ pc = "done" /\ gone = {}
    /\ git.ran /\ git.ok /\ git.out = <<>>
    /\ Len(files) > 2

AssetViolations(p) == Count(violations, Violation("asset", Rel(p)))

\* C6: once the loop is past a candidate file that is on disk and whose
\* extension, in lower case, is an asset extension, the list holds one asset
\* violation naming it if its size is over 5 MiB and none if it is not; a file
\* with another extension never has one.  No mode is mentioned: it holds in all.
C6_AssetSizeLimit ==
    /\ \A k \in DOMAIN violations :
          violations[k].rule = "asset" =>
              Lower(PathSuffix(violations[k].subject)) \in asset_exts
    /\ \A i \in DOMAIN files :
          LET p == files[i]
          IN  (Evaluated(i) /\ p \notin gone /\ Lower(PathSuffix(p)) \in asset_exts
                  /\ p \in Nodes) =>
                 AssetViolations(p) = IF StSize(p) > 5 * 1024 * 1024 THEN 1 ELSE 0

C6_Witness ==
    /\ pc = "done" /\ gone = {} /\ is_instructor /\ ~local
    /\ root \o p_ok \in Range(files)
    /\ root \o p_big \in Range(files)
    /\ AssetViolations(root \o p_pic) = 1
    /\ StSize(root \o p_ok) = max_asset_size_bytes

\* the regular files directly inside the src of a question directory whose
\* name ends with the target extension
SourceFileEntries ==
    {e \in disk :
        /\ e.kind = "file"
        /\ Len(Rel(e.path)) = 3
        /\ Head(Rel(e.path))[1] = "q"
        /\ Rel(e.path)[2] = s_src
        /\ EndsWith(Rel(e.path)[3], target_ext)}

\* the loops over q_dirs and py_files are past f
Counted(f) ==
    \E j \in DOMAIN q_dirs :
        /\ q_dirs[j] = SubSeq(f, 1, Len(f) - 2)
        /\ \/ j < qi
           \/ j = qi /\ \E k \in DOMAIN py_files : k < fi /\ py_files[k] = f

LineViolations(f) == Count(violations, Violation("lines", Rel(f)))

\* C7: a source file of a question directory that is on disk has one line-limit
\* violation once it has been counted if it has more than 500 lines, and none if
\* it has 500 or fewer; a run that ends normally has counted every one that is on disk.  With
\* q1/src/a.py of 3 lines and q1/src/b.py of 600 in Local mode the list ends as
\* the one violation for b.py and the exit status is 1.
C7_LineLimit ==
    /\ \A e \in SourceFileEntries :
          /\ LineViolations(e.path) <= 1
          /\ e.lines <= 500 => LineViolations(e.path) = 0
          /\ (e.lines > 500 /\ Counted(e.path) /\ e.path \notin gone) =>
                LineViolations(e.path) = 1
          /\ ~Counted(e.path) => LineViolations(e.path) = 0
          /\ (pc = "done" /\ e.path \notin gone) => Counted(e.path)
    /\ (pc = "done" /\ local /\ gone = {}
            /\ {Rel(e.path) : e \in disk} = {p_q1a, p_q1b}) =>
          /\ violations = <<Violation("lines", p_q1b)>>
          /\ exit_status = 1

C7_Witness ==
    /\ pc = "done" /\ local /\ gone = {}
    /\ Cardinality(disk) = 2
    /\ violations = <<Violation("lines", p_q1b)>>
    /\ exit_status = 1

\* the violations of rules 3 and 4, in the order they were appended
Structural == SelectSeq(violations, LAMBDA v : v.rule \in {"too_many", "lines"})

\* the question directories on disk
QuestionDirNodes ==
    {d \in Nodes : Len(Rel(d)) = 1 /\ Name(d)[1] = "q" /\ ~(IsEntry(d) /\ Entry(d).kind = "file")}

\* what rules 3 and 4 find in one question directory, from the disk alone
ExpectedOfDir(d) ==
    LET inside == SelectSeq(ScanDir(d \o <<s_src>>), LAMBDA p : EndsWith(Name(p), target_ext))
        long   == SelectSeq(inside, LAMBDA p : IsEntry(p) /\ Entry(p).kind = "file"
                                                  /\ Entry(p).lines > 500)
    IN  (IF Len(inside) > 5 THEN <<Violation("too_many", <<Name(d)>>)>> ELSE <<>>)
        \o [k \in DOMAIN long |-> Violation("lines", Rel(long[k]))]

\* what rules 3 and 4 find, from the disk alone: no mode, no diff, no candidate
ExpectedStructural ==
    LET dirs == SortPaths(QuestionDirNodes)
    IN  Flatten([j \in DOMAIN dirs |-> ExpectedOfDir(dirs[j])])

\* C8: on a disk that does not change, the violations of rules 3 and 4 are at
\* every moment the first ones of a sequence that is computed from the disk
\* alone, and all of it when the run ends normally: runs over the same disk
\* that differ in mode or in the diff collect the same ones.  There is one "too
\* many scripts" violation for a question directory with more than 5 source
\* files in src, and none for one with 5.
C8_StructuralRulesIgnoreMode ==
    gone = {} =>
        /\ IsPrefixOf(Structural, ExpectedStructural)
        /\ pc = "done" =>
              /\ Structural = ExpectedStructural
              /\ \A d \in QuestionDirNodes :
                    Count(violations, Violation("too_many", <<Name(d)>>)) =
                        IF Cardinality({p \in Nodes : /\ Len(p) = Len(d) + 2
                                                      /\ IsPrefixOf(d \o <<s_src>>, p)
                                                      /\ EndsWith(Name(p), target_ext)}) > 5
                        THEN 1 ELSE 0

C8_Witness ==
    /\ pc = "done" /\ gone = {}
    /\ ~local /\ DiffReported /\ Len(files) = 1
    /\ Count(violations, Violation("too_many", <<s_q1>>)) = 1
    /\ Count(violations, Violation("too_many", <<s_q2>>)) = 0
    /\ Cardinality({e \in disk : IsPrefixOf(root \o <<s_q2, s_src>>, e.path)}) = 5

\* C9, as claimed: in Local mode get_files_to_check returns the files sorted by path.
C9_LocalResultSorted ==
    (local /\ pc # "resolve") =>
        \A i, j \in DOMAIN files : i < j => PathLess(files[i], files[j])

\* C10, as claimed: a file under root is a candidate if and only if no part of
\* its path relative to root is an ignored part or begins with ".", wherever
\* root lies.
C10_FilterOnRelativePath ==
    (local /\ pc # "resolve" /\ gone = {}) =>
        {Rel(p) : p \in Range(files)} =
            {Rel(e.path) : e \in {x \in disk : /\ x.kind = "file"
                                               /\ ~should_exclude(Rel(x.path), ignored_parts)}}

============================================================================
